---- MODULE Spec2Model ----
(***************************************************************************)
(* One video job of the uploadcloudc pipeline: VideoProcessor.processVideo *)
(* (analyze, capture frame, compress, check size / split) as it is driven  *)
(* by VideoProcessingScript.processVideo (sheet status, download, upload,  *)
(* sheet row, cleanup) or by the server's POST /process/:fileId handler.   *)
(*                                                                         *)
(* Every await of the code is one step.  External tools (ffprobe, ffmpeg,  *)
(* fs.stat, fs.remove, Drive, ImageKit, Sheets) either complete or fail.   *)
(* File sizes are integers in bytes; fileSize / (1024 * 1024) is kept      *)
(* exact by comparing and dividing in bytes.  Times are exact rationals    *)
(* (or NaN), so the rounding of IEEE doubles is not part of the model.     *)
(***************************************************************************)
EXTENDS Integers, Sequences, FiniteSets, TLC

VARIABLES
  maxVideoSizeMB,   \* VideoProcessor.maxVideoSizeMB, fixed by the constructor
  entry,            \* the caller of the job: "script" or "server"
  pc,               \* the job's position
  fs,               \* the files that exist in the temp directory
  localPath,        \* the caller's localPath (NullPath until the download returns)
  thumbnailPath,    \* processVideo's thumbnailPath
  processedPath,    \* processVideo's processedPath
  fileSize,         \* size in bytes of the transcoded file
  duration,         \* splitVideo's duration
  partsNeeded,      \* splitVideo's partsNeeded
  i,                \* splitVideo's loop index
  parts,            \* the list checkAndSplitVideo / splitVideo builds
  segments,         \* the (startTime, endTime, setDuration) of every extraction request
  vpOutcome,        \* VideoProcessor.processVideo: "none", "running", "returned", "threw"
  processedVideos,  \* the caller's processedVideos
  imageKitUrls,     \* the caller's imageKitUrls
  sheet,            \* the rows of the VideoProcessing sheet
  pending,          \* what the script's try/catch hands to finally: "return" or "throw"
  outcome,          \* the caller's call: "running", "returned", "threw"
  events,           \* history: stage starts/ends, extractions, uploads, removals
  presetFile,       \* the file at VIDEO_PRESET_PATH when the processor is constructed
  preset,           \* VideoProcessor.preset, fixed by the constructor
  frameCaptureTime, \* VideoProcessor.frameCaptureTime, fixed by the constructor
  probe,            \* what ffprobe reported for the input file
  videoInfo,        \* processVideo's videoInfo (NoInfo until analyzeVideo resolves)
  thrown,           \* the error the caller's call ends with: "none", "original", "updateEntryStatus"
  conc,             \* two jobs of the server running concurrently (SpecConcurrent)
  mon               \* the CheckAndProcessScript monitor (SpecMonitor)

vars == <<maxVideoSizeMB, entry, pc, fs, localPath, thumbnailPath, processedPath,
          fileSize, duration, partsNeeded, i, parts, segments, vpOutcome,
          processedVideos, imageKitUrls, sheet, pending, outcome, events,
          presetFile, preset, frameCaptureTime, probe, videoInfo, thrown, conc, mon>>

\* what no step of a job changes
ConfigVars == <<maxVideoSizeMB, entry, presetFile, preset, frameCaptureTime, conc, mon>>

-----------------------------------------------------------------------------
(* Bounds and program constants *)

\* The largest number of parts a transcoded file of the model needs.
MaxParts == 3

\* 1024 * 1024
BytesPerMB == 1048576

\* parseInt(process.env.MAX_VIDEO_SIZE_MB) || 98
DefaultMaxVideoSizeMB == 98

-----------------------------------------------------------------------------
(* Paths.  Every file of a job lives in TEMP_DIR and is named after the    *)
(* base name of originalFileName; a path is <<suffix, index>>.             *)

NullPath == <<"null", 0>>
InputPath == <<"input", 0>>                \* `${Date.now()}-${fileName}`
ThumbnailName == <<"_thumbnail.jpg", 0>>   \* `${base}_thumbnail.jpg`
ProcessedName == <<"_processed.mp4", 0>>   \* `${base}_processed.mp4`
PartName(k) == <<"_part", k>>              \* `${base}_part${k}.mp4`

FileId == "f1"

Ev(op, p) == [op |-> op, path |-> p]
Stage(s) == <<s, 0>>

-----------------------------------------------------------------------------
(* Times: exact rationals num/den, or NaN.                                 *)

NaN == [nan |-> TRUE, num |-> 0, den |-> 1]
Num(n) == [nan |-> FALSE, num |-> n, den |-> 1]
TimeDiv(a, n) == [nan |-> a.nan, num |-> a.num, den |-> a.den * n]
TimeMul(n, a) == [nan |-> a.nan, num |-> n * a.num, den |-> a.den]
TimeSub(a, b) ==
  [nan |-> a.nan \/ b.nan, num |-> a.num * b.den - b.num * a.den, den |-> a.den * b.den]
TimeAdd(a, b) ==
  [nan |-> a.nan \/ b.nan, num |-> a.num * b.den + b.num * a.den, den |-> a.den * b.den]
\* IEEE equality: NaN equals nothing.
TimeEq(a, b) == ~a.nan /\ ~b.nan /\ a.num * b.den = b.num * a.den

-----------------------------------------------------------------------------
(* The constructor: this.maxVideoSizeMB = parseInt(env) || 98.             *)
(* parseInt gives NaN for an unset or non-numeric variable; NaN and 0 are  *)
(* falsy, every other integer is kept.                                     *)

EnvInts == {-2, 0, 1, 2, 98}
EnvChoices ==
  {[nan |-> TRUE, n |-> 0]} \cup {[nan |-> FALSE, n |-> k] : k \in EnvInts}

parseMaxVideoSizeMB(e) ==
  IF e.nan \/ e.n = 0 THEN DefaultMaxVideoSizeMB ELSE e.n

\* The sizes a transcoded file takes in the model: around every multiple of
\* the ceiling up to MaxParts parts, and the 50 MB and 250 MB of the examples.
SizeChoices(m) ==
  IF m > 0
  THEN {s \in {k * m * BytesPerMB + d : k \in 0..MaxParts, d \in {-1, 0, 1}}
                \cup {50 * BytesPerMB, 250 * BytesPerMB} :
          s >= 0 /\ s <= MaxParts * m * BytesPerMB}
  ELSE {0, 1, BytesPerMB, 3 * BytesPerMB}

\* fs.stat of a thumbnail or a part: its size plays no role in control flow.
OtherSizes == {4096}

\* metadata.format.duration of the transcoded file through parseFloat:
\* missing (NaN), zero, or a positive number of seconds.
DurationChoices == {NaN, Num(0), Num(61)}

-----------------------------------------------------------------------------
(* The constructor: this.frameCaptureTime = parseInt(env) || 2             *)

\* parseInt(process.env.FRAME_CAPTURE_TIME) || 2
DefaultFrameCaptureTime == 2

CaptureEnvInts == {-1, 0, 5, 61}
CaptureEnvChoices ==
  {[nan |-> TRUE, n |-> 0]} \cup {[nan |-> FALSE, n |-> k] : k \in CaptureEnvInts}

parseFrameCaptureTime(e) ==
  IF e.nan \/ e.n = 0 THEN DefaultFrameCaptureTime ELSE e.n

\* screenshots({ timestamps: [this.frameCaptureTime], ... }): the configured
\* time goes to the tool as it is, whatever analyzeVideo reported
captureTimestamp(t, info) == t

-----------------------------------------------------------------------------
(* The constructor: this.preset = this.loadPreset().  A preset is a record *)
(* of the fields the file holds; a numeric field is N(v), a field holding  *)
(* something that is no number is NotANumber.  fps is kept in hundredths.  *)

N(v) == [num |-> TRUE, v |-> v]
NotANumber == [num |-> FALSE, v |-> 0]

DefaultPreset ==
  [videoCodec |-> "h264", audioCodec |-> "aac", resolution |-> "1920x1080",
   bitrate |-> N(974), fps |-> N(2997), audioChannels |-> N(2),
   audioSampleRate |-> N(48000)]

\* a file at presetPath: absent, unreadable, not JSON, or JSON holding `value`
NoFile(kind) == [kind |-> kind, value |-> <<>>]
JsonFile(value) == [kind |-> "json", value |-> value]

PresetFiles ==
  {NoFile("missing"), NoFile("unreadable"), NoFile("malformed"),
   \* every field, valid
   JsonFile([videoCodec |-> "libx265", audioCodec |-> "mp3", resolution |-> "1280x720",
             bitrate |-> N(500), fps |-> N(2500), audioChannels |-> N(1),
             audioSampleRate |-> N(44100)]),
   \* {} : parses, holds no field
   JsonFile(<<>>),
   \* every field, with a zero, a negative, a non-numeric value and no WxH
   JsonFile([videoCodec |-> "h264", audioCodec |-> "aac", resolution |-> "hd",
             bitrate |-> N(0), fps |-> NotANumber, audioChannels |-> N(-2),
             audioSampleRate |-> N(48000)])}

\* try { return JSON.parse(fs.readFileSync(presetPath)) } catch { return defaults }
loadPresetOtherDefaults(f) ==
  IF f.kind = "json" THEN f.value ELSE [DefaultPreset EXCEPT !.bitrate = N(1000)]
loadPreset(f) == IF f.kind = "json" THEN f.value ELSE DefaultPreset

\* The configurations of the model: every ceiling with the default preset and
\* capture time, every preset file and every capture time with the default
\* ceiling.
Configs ==
  {[max |-> parseMaxVideoSizeMB(e), file |-> NoFile("missing"),
    capture |-> DefaultFrameCaptureTime] : e \in EnvChoices}
    \cup {[max |-> DefaultMaxVideoSizeMB, file |-> f,
           capture |-> DefaultFrameCaptureTime] : f \in PresetFiles}
    \cup {[max |-> DefaultMaxVideoSizeMB, file |-> NoFile("missing"),
           capture |-> parseFrameCaptureTime(e)] : e \in CaptureEnvChoices}

-----------------------------------------------------------------------------
(* analyzeVideo: what ffprobe reports, and what the promise settles to.    *)
(* metadata.format.duration is a positive number, zero or missing (NaN);   *)
(* the streams hold a video stream or not.                                 *)

ProbeError == [err |-> TRUE, hasVideo |-> FALSE, duration |-> NaN]
ProbeChoices ==
  {ProbeError}
    \cup {[err |-> FALSE, hasVideo |-> TRUE, duration |-> d] : d \in {Num(61), Num(0), NaN}}
    \cup {[err |-> FALSE, hasVideo |-> FALSE, duration |-> Num(61)]}

NoInfo == [duration |-> NaN, videoCodec |-> "none"]

\* reject on err; otherwise resolve with the fields as they are
\* (videoStream?.codec_name is undefined without a video stream)
analyzeVideoResult(p) ==
  IF p.err THEN [ok |-> FALSE, info |-> NoInfo]
  ELSE [ok |-> TRUE,
        info |-> [duration |-> p.duration,
                  videoCodec |-> IF p.hasVideo THEN "h264" ELSE "undefined"]]

-----------------------------------------------------------------------------
(* checkAndSplitVideo / splitVideo arithmetic                              *)

\* fileSizeMB <= this.maxVideoSizeMB, with fileSizeMB = fileSize / (1024 * 1024)
NoSplitNeededStrict(size, m) == size < m * BytesPerMB
NoSplitNeeded(size, m) == size <= m * BytesPerMB

\* Math.ceil(a / b) for integers a >= 0 and b # 0
Ceil(a, b) == IF b > 0 THEN (a + b - 1) \div b ELSE -(a \div (-b))

\* Math.ceil(fileSizeMB / this.maxVideoSizeMB)
PartsNeeded(size, m) == Ceil(size, m * BytesPerMB)

\* for (let i = 0; i < partsNeeded; i++)
LoopContinuesShort(k, n) == k < n - 1
LoopContinues(k, n) == k < n

\* the artifact of an unsplit video
SingleArtifact(p, size) ==
  [path |-> p, name |-> p, type |-> "video", size |-> size]

\* the artifact of part k of n
PartArtifact(k, n, size) ==
  [path |-> PartName(k), name |-> PartName(k), type |-> "video", size |-> size,
   part |-> k, totalParts |-> n]

ThumbnailArtifact(p, size) ==
  [path |-> p, name |-> ThumbnailName, type |-> "thumbnail", size |-> size]

\* the request of iteration k (0-based): startTime, endTime, setDuration
SegmentRequest(k, dur, n) ==
  LET durationPerPart == TimeDiv(dur, n)
      startTime == TimeMul(k, durationPerPart)
      endTime == TimeMul(k + 1, durationPerPart)
  IN [start |-> startTime, end |-> endTime, dur |-> TimeSub(endTime, startTime)]

-----------------------------------------------------------------------------
(* The sheet                                                               *)

RowIndex(rows, id) ==
  IF \E r \in 1..Len(rows) : rows[r].fileId = id
  THEN CHOOSE r \in 1..Len(rows) :
         rows[r].fileId = id /\ \A q \in 1..(r - 1) : rows[q].fileId # id
  ELSE 0

SetStatusLost(rows, id, status) == rows
SetStatus(rows, id, status) ==
  [rows EXCEPT ![RowIndex(rows, id)].status = status]

\* v.type === t; an entry without a type field has type undefined
IsType(v, t) == "type" \in DOMAIN v /\ v.type = t

\* the row addVideoEntry appends (columns C to G); no caller passes errorMessage
addVideoEntryRow(id, vids) ==
  LET videos == SelectSeq(vids, LAMBDA v : IsType(v, "video"))
      thumbnails == SelectSeq(vids, LAMBDA v : IsType(v, "thumbnail"))
  IN [fileId |-> id, status |-> "COMPLETED",
      videoParts |-> Len(videos),
      videoUrls |-> [k \in 1..Len(videos) |-> videos[k].url],
      thumbnailUrl |-> IF Len(thumbnails) > 0 THEN thumbnails[1].url ELSE NullPath]

\* the sheet before the job: no row for the file, or the row of an earlier run
InitialSheets ==
  {<<>>} \cup {<<[addVideoEntryRow(FileId, <<>>) EXCEPT !.status = st]>> :
                 st \in {"COMPLETED", "ERROR"}}

-----------------------------------------------------------------------------
ConcIdle == <<>>
MonIdle == <<>>

Init ==
  /\ \E c \in Configs :
       /\ maxVideoSizeMB = c.max
       /\ presetFile = c.file
       /\ preset = loadPreset(c.file)
       /\ frameCaptureTime = c.capture
  /\ probe = ProbeError
  /\ videoInfo = NoInfo
  /\ thrown = "none"
  /\ conc = ConcIdle
  /\ mon = MonIdle
  /\ entry \in {"script", "server"}
  /\ pc = IF entry = "script" THEN "updateProcessing" ELSE "download"
  /\ fs = {}
  /\ localPath = NullPath
  /\ thumbnailPath = NullPath
  /\ processedPath = NullPath
  /\ fileSize = 0
  /\ duration = NaN
  /\ partsNeeded = 0
  /\ i = 0
  /\ parts = <<>>
  /\ segments = <<>>
  /\ vpOutcome = "none"
  /\ processedVideos = <<>>
  /\ imageKitUrls = <<>>
  /\ sheet \in InitialSheets
  /\ pending = "none"
  /\ outcome = "running"
  /\ events = <<>>

\* where control goes when an await of the try block rejects
CatchPc == IF entry = "script" THEN "scriptCatch" ELSE "serverCatch"

\* a failed tool may or may not leave its (partial) output file behind
Leftover(p) == {fs, fs \cup {p}}

CallerVars == <<localPath, processedVideos, imageKitUrls, sheet, pending, outcome>>
SplitVars == <<duration, partsNeeded, i, parts, segments>>

-----------------------------------------------------------------------------
(* GoogleSheetsService.updateEntryStatus: the outcomes of one call.  The   *)
(* row lookup or the status write may fail (nothing written); with         *)
(* additionalData the writes of columns I and J follow the status write    *)
(* and may fail after the status has been written.                         *)

updateEntryStatus(rows, id, status, hasAdditionalData) ==
  {[sheet |-> rows, ok |-> FALSE, wrote |-> FALSE]}
    \cup (IF RowIndex(rows, id) = 0
          THEN {}
          ELSE {[sheet |-> SetStatus(rows, id, status), ok |-> TRUE, wrote |-> TRUE]}
                 \cup (IF hasAdditionalData
                       THEN {[sheet |-> SetStatus(rows, id, status), ok |-> FALSE,
                              wrote |-> TRUE]}
                       ELSE {}))

\* what a call of updateEntryStatus leaves in the log: its status write, if made
StatusEvents(r, status) ==
  IF r.wrote THEN <<Ev("status", Stage(status))>> ELSE <<>>

-----------------------------------------------------------------------------
(* VideoProcessingScript.processVideo, step 1 *)

updateStatusProcessing ==
  /\ pc = "updateProcessing"
  /\ \E r \in updateEntryStatus(sheet, FileId, "PROCESSING", FALSE) :
       /\ sheet' = r.sheet
       /\ events' = events \o StatusEvents(r, "PROCESSING")
       /\ pc' = IF r.ok THEN "download" ELSE "scriptCatch"
  /\ UNCHANGED <<ConfigVars, probe, videoInfo, thrown, fs, localPath, thumbnailPath, processedPath,
                 fileSize, vpOutcome, processedVideos, imageKitUrls, pending,
                 outcome>>
  /\ UNCHANGED SplitVars

(* GoogleDriveService.downloadFile, then the call of videoProcessor.processVideo *)
downloadFile ==
  /\ pc = "download"
  /\ \/ /\ fs' = fs \cup {InputPath}
        /\ localPath' = InputPath
        /\ vpOutcome' = "running"
        /\ events' = Append(events, Ev("download", InputPath))
        /\ pc' = "analyze"
     \/ /\ fs' \in Leftover(InputPath)
        /\ events' = Append(events, Ev("downloadfail", InputPath))
        /\ pc' = CatchPc
        /\ UNCHANGED <<localPath, vpOutcome>>
  /\ UNCHANGED <<ConfigVars, probe, videoInfo, thrown, thumbnailPath, processedPath, fileSize,
                 processedVideos, imageKitUrls, sheet, pending, outcome>>
  /\ UNCHANGED SplitVars

-----------------------------------------------------------------------------
(* VideoProcessor.processVideo *)

\* the catch of processVideo rethrows to the caller, whose list stays empty
VpThrowCarriesOn == vpOutcome' = "threw" /\ pc' = "pushThumbnail"
VpThrow == vpOutcome' = "threw" /\ pc' = CatchPc

\* Step 1: analyzeVideo(inputPath); the metadata is only logged
analyzeVideo ==
  /\ pc = "analyze"
  /\ \E p \in ProbeChoices :
       LET r == analyzeVideoResult(p)
       IN /\ probe' = p
          /\ videoInfo' = r.info
          /\ IF r.ok
             THEN /\ events' = events \o <<Ev("start", Stage("analyze")),
                                            Ev("end", Stage("analyze"))>>
                  /\ pc' = "capture"
                  /\ UNCHANGED vpOutcome
             ELSE /\ events' = events \o <<Ev("start", Stage("analyze")),
                                            Ev("fail", Stage("analyze"))>>
                  /\ VpThrow
  /\ UNCHANGED <<ConfigVars, thrown, fs, thumbnailPath, processedPath, fileSize>>
  /\ UNCHANGED CallerVars
  /\ UNCHANGED SplitVars

\* Step 2: captureFrame(inputPath, originalFileName)
captureFrame ==
  /\ pc = "capture"
  /\ \/ /\ fs' = fs \cup {ThumbnailName}
        /\ thumbnailPath' = ThumbnailName
        /\ events' = events \o <<Ev("start", Stage("thumbnail")),
                                  Ev("screenshot", <<"timestamp", captureTimestamp(frameCaptureTime, videoInfo)>>),
                                  Ev("end", Stage("thumbnail"))>>
        /\ pc' = "compress"
        /\ UNCHANGED vpOutcome
     \/ /\ fs' \in Leftover(ThumbnailName)
        /\ events' = events \o <<Ev("start", Stage("thumbnail")),
                                  Ev("screenshot", <<"timestamp", captureTimestamp(frameCaptureTime, videoInfo)>>),
                                  Ev("fail", Stage("thumbnail"))>>
        /\ VpThrow
        /\ UNCHANGED thumbnailPath
  /\ UNCHANGED <<ConfigVars, probe, videoInfo, thrown, processedPath, fileSize>>
  /\ UNCHANGED CallerVars
  /\ UNCHANGED SplitVars

\* Step 3: compressVideo(inputPath, originalFileName)
compressVideo ==
  /\ pc = "compress"
  /\ \/ /\ \E s \in SizeChoices(maxVideoSizeMB) : fileSize' = s
        /\ fs' = fs \cup {ProcessedName}
        /\ processedPath' = ProcessedName
        /\ events' = events \o <<Ev("start", Stage("transcode")), Ev("end", Stage("transcode"))>>
        /\ pc' = "checkSize"
        /\ UNCHANGED vpOutcome
     \/ /\ fs' \in Leftover(ProcessedName)
        /\ events' = events \o <<Ev("start", Stage("transcode")), Ev("fail", Stage("transcode"))>>
        /\ VpThrow
        /\ UNCHANGED <<processedPath, fileSize>>
  /\ UNCHANGED <<ConfigVars, probe, videoInfo, thrown, thumbnailPath>>
  /\ UNCHANGED CallerVars
  /\ UNCHANGED SplitVars

\* Step 4: checkAndSplitVideo(processedPath, originalFileName)
checkAndSplitVideo ==
  /\ pc = "checkSize"
  /\ \/ \* getFileSize rejects
        /\ events' = events \o <<Ev("start", Stage("split")), Ev("fail", Stage("split"))>>
        /\ VpThrow
        /\ UNCHANGED parts
     \/ \* no splitting needed
        /\ NoSplitNeeded(fileSize, maxVideoSizeMB)
        /\ parts' = <<SingleArtifact(processedPath, fileSize)>>
        /\ events' = events \o <<Ev("start", Stage("split")), Ev("end", Stage("split"))>>
        /\ pc' = "pushThumbnail"
        /\ UNCHANGED vpOutcome
     \/ \* return await this.splitVideo(videoPath, originalFileName)
        /\ ~NoSplitNeeded(fileSize, maxVideoSizeMB)
        /\ events' = Append(events, Ev("start", Stage("split")))
        /\ pc' = "splitVideo"
        /\ UNCHANGED <<parts, vpOutcome>>
  /\ UNCHANGED <<ConfigVars, probe, videoInfo, thrown, fs, thumbnailPath, processedPath, fileSize,
                 duration, partsNeeded, i, segments>>
  /\ UNCHANGED CallerVars

\* splitVideo up to its loop: analyzeVideo(videoPath), getFileSize, the plan
splitVideo ==
  /\ pc = "splitVideo"
  /\ \/ \* analyzeVideo or getFileSize rejects
        /\ events' = Append(events, Ev("fail", Stage("split")))
        /\ VpThrow
        /\ UNCHANGED <<duration, partsNeeded, i, parts>>
     \/ /\ \E d \in DurationChoices : duration' = d
        /\ partsNeeded' = PartsNeeded(fileSize, maxVideoSizeMB)
        /\ i' = 0
        /\ parts' = <<>>
        /\ pc' = IF LoopContinues(0, partsNeeded') THEN "extract" ELSE "removeOriginal"
        /\ UNCHANGED <<events, vpOutcome>>
  /\ UNCHANGED <<ConfigVars, probe, videoInfo, thrown, fs, thumbnailPath, processedPath, fileSize,
                 segments>>
  /\ UNCHANGED CallerVars

\* one iteration of the loop: extractVideoSegment, getFileSize(partPath), parts.push
extractVideoSegment ==
  /\ pc = "extract"
  /\ segments' = Append(segments, SegmentRequest(i, duration, partsNeeded))
  /\ \/ \* ffmpeg fails
        /\ fs' \in Leftover(PartName(i + 1))
        /\ events' = events \o <<Ev("extractfail", PartName(i + 1)), Ev("fail", Stage("split"))>>
        /\ VpThrow
        /\ UNCHANGED <<i, parts>>
     \/ \* the part is written, getFileSize(partPath) rejects
        /\ fs' = fs \cup {PartName(i + 1)}
        /\ events' = events \o <<Ev("extract", PartName(i + 1)), Ev("fail", Stage("split"))>>
        /\ VpThrow
        /\ UNCHANGED <<i, parts>>
     \/ /\ fs' = fs \cup {PartName(i + 1)}
        /\ \E s \in OtherSizes : parts' = Append(parts, PartArtifact(i + 1, partsNeeded, s))
        /\ i' = i + 1
        /\ events' = Append(events, Ev("extract", PartName(i + 1)))
        /\ pc' = IF LoopContinues(i + 1, partsNeeded) THEN "extract" ELSE "removeOriginal"
        /\ UNCHANGED vpOutcome
  /\ UNCHANGED <<ConfigVars, probe, videoInfo, thrown, thumbnailPath, processedPath, fileSize,
                 duration, partsNeeded>>
  /\ UNCHANGED CallerVars

\* after the loop: await fs.remove(videoPath); return parts
removeOriginal ==
  /\ pc = "removeOriginal"
  /\ \/ /\ fs' = fs \ {processedPath}
        /\ events' = events \o <<Ev("remove", processedPath), Ev("end", Stage("split"))>>
        /\ pc' = "pushThumbnail"
        /\ UNCHANGED vpOutcome
     \/ /\ events' = events \o <<Ev("removefail", processedPath), Ev("fail", Stage("split"))>>
        /\ VpThrow
        /\ UNCHANGED fs
  /\ UNCHANGED <<ConfigVars, probe, videoInfo, thrown, thumbnailPath, processedPath, fileSize>>
  /\ UNCHANGED CallerVars
  /\ UNCHANGED SplitVars

\* processedVideos.push({thumbnail ..., size: await getFileSize(thumbnailPath)}); return
pushThumbnail ==
  /\ pc = "pushThumbnail"
  /\ \/ /\ \E s \in OtherSizes :
             processedVideos' = Append(parts, ThumbnailArtifact(thumbnailPath, s))
        /\ vpOutcome' = "returned"
        /\ pc' = "upload"
     \/ /\ VpThrow
        /\ UNCHANGED processedVideos
  /\ UNCHANGED <<ConfigVars, probe, videoInfo, thrown, fs, localPath, thumbnailPath, processedPath,
                 fileSize, imageKitUrls, sheet, pending, outcome, events>>
  /\ UNCHANGED SplitVars

-----------------------------------------------------------------------------
(* The callers' steps after videoProcessor.processVideo returned           *)

\* the entry pushed to imageKitUrls; the server's entry has no type
UrlEntry(v) ==
  IF entry = "script"
  THEN [name |-> v.name, url |-> v.path, size |-> v.size, type |-> v.type]
  ELSE [name |-> v.name, url |-> v.path, size |-> v.size]

\* for (const video of processedVideos): after artifact k of n, the next
\* one, or step 5
AfterUploadEarly(k, n) == "addEntry"
AfterUpload(k, n) == IF k = n THEN "addEntry" ELSE "upload"

\* one iteration of for (const video of processedVideos): upload, push
uploadFile ==
  /\ pc = "upload"
  /\ LET k == Len(imageKitUrls) + 1
         video == processedVideos[k]
     IN \/ /\ imageKitUrls' = Append(imageKitUrls, UrlEntry(video))
           /\ events' = Append(events, Ev("upload", video.path))
           /\ pc' = AfterUpload(k, Len(processedVideos))
        \/ /\ events' = Append(events, Ev("uploadfail", video.path))
           /\ pc' = CatchPc
           /\ UNCHANGED imageKitUrls
  /\ UNCHANGED <<ConfigVars, probe, videoInfo, thrown, fs, localPath, thumbnailPath, processedPath,
                 fileSize, vpOutcome, processedVideos, sheet, pending, outcome>>
  /\ UNCHANGED SplitVars

\* googleSheetsService.addVideoEntry({... processedVideos: imageKitUrls ...})
addVideoEntry ==
  /\ pc = "addEntry"
  /\ \/ /\ sheet' = Append(sheet, addVideoEntryRow(FileId, imageKitUrls))
        /\ events' = Append(events, Ev("append", Stage("sheet")))
        /\ pc' = IF entry = "script" THEN "updateCompleted" ELSE "serverCleanup"
     \/ /\ events' = Append(events, Ev("appendfail", Stage("sheet")))
        /\ pc' = CatchPc
        /\ UNCHANGED sheet
  /\ UNCHANGED <<ConfigVars, probe, videoInfo, thrown, fs, localPath, thumbnailPath, processedPath,
                 fileSize, vpOutcome, processedVideos, imageKitUrls, pending,
                 outcome>>
  /\ UNCHANGED SplitVars

\* Step 6: updateEntryStatus(fileId, 'COMPLETED', {processingTime}); return
updateStatusCompleted ==
  /\ pc = "updateCompleted"
  /\ \E r \in updateEntryStatus(sheet, FileId, "COMPLETED", TRUE) :
       /\ sheet' = r.sheet
       /\ events' = events \o StatusEvents(r, "COMPLETED")
       /\ pc' = IF r.ok THEN "finally" ELSE "scriptCatch"
       /\ pending' = IF r.ok THEN "return" ELSE pending
  /\ UNCHANGED <<ConfigVars, probe, videoInfo, thrown, fs, localPath, thumbnailPath, processedPath,
                 fileSize, vpOutcome, processedVideos, imageKitUrls, outcome>>
  /\ UNCHANGED SplitVars

\* catch (error): updateEntryStatus(fileId, 'ERROR', {...}); throw error.
\* A rejection of the update is thrown in place of the error; finally runs either way.
scriptCatch ==
  /\ pc = "scriptCatch"
  /\ \E r \in updateEntryStatus(sheet, FileId, "ERROR", TRUE) :
       /\ sheet' = r.sheet
       /\ events' = events \o StatusEvents(r, "ERROR")
       /\ thrown' = IF r.ok THEN "original" ELSE "updateEntryStatus"
  /\ pending' = "throw"
  /\ pc' = "finally"
  /\ UNCHANGED <<ConfigVars, probe, videoInfo, fs, localPath, thumbnailPath, processedPath,
                 fileSize, vpOutcome, processedVideos, imageKitUrls, outcome>>
  /\ UNCHANGED SplitVars

-----------------------------------------------------------------------------
(* Cleanup                                                                 *)

\* the paths a cleanup goes through, in order: localPath, then every video.path
CleanupTargetsNoLocal(lp, vids) == [k \in 1..Len(vids) |-> vids[k].path]
CleanupTargets(lp, vids) ==
  (IF lp # NullPath THEN <<lp>> ELSE <<>>) \o [k \in 1..Len(vids) |-> vids[k].path]

\* Removals in order over targets t; f = 0: none fails, f > 0: the f-th fails
\* and nothing after it is tried.
RemovedBy(t, f) == {t[k] : k \in 1..(IF f = 0 THEN Len(t) ELSE f - 1)}
RemovalEvents(t, f) ==
  [k \in 1..(IF f = 0 THEN Len(t) ELSE f) |->
     IF k = f THEN Ev("removefail", t[k]) ELSE Ev("remove", t[k])]

\* finally { await this.cleanupFiles(localPath, processedVideos) }: fs.remove on
\* the paths that exist, one try/catch around all of them; then the call ends
scriptCleanupFiles ==
  /\ pc = "finally"
  /\ LET t == SelectSeq(CleanupTargets(localPath, processedVideos), LAMBDA p : p \in fs)
     IN \E f \in 0..Len(t) :
          /\ fs' = fs \ RemovedBy(t, f)
          /\ events' = events \o RemovalEvents(t, f)
  /\ outcome' = IF pending = "return" THEN "returned" ELSE "threw"
  /\ pc' = "done"
  /\ UNCHANGED <<ConfigVars, probe, videoInfo, thrown, localPath, thumbnailPath, processedPath,
                 fileSize, vpOutcome, processedVideos, imageKitUrls, sheet, pending>>
  /\ UNCHANGED SplitVars

\* server: fs.remove(localPath); fs.remove(video.path) for each; res.json(success)
serverCleanup ==
  /\ pc = "serverCleanup"
  /\ LET t == <<localPath>> \o [k \in 1..Len(processedVideos) |-> processedVideos[k].path]
     IN \E f \in 0..Len(t) :
          /\ fs' = fs \ RemovedBy(t, f)
          /\ events' = events \o RemovalEvents(t, f)
          /\ pc' = IF f = 0 THEN "done" ELSE "serverCatch"
          /\ outcome' = IF f = 0 THEN "returned" ELSE outcome
  /\ UNCHANGED <<ConfigVars, probe, videoInfo, thrown, localPath, thumbnailPath, processedPath,
                 fileSize, vpOutcome, processedVideos, imageKitUrls, sheet, pending>>
  /\ UNCHANGED SplitVars

\* server: catch (error) { res.status(500).json(...) }
serverCatch ==
  /\ pc = "serverCatch"
  /\ outcome' = "threw"
  /\ thrown' = "original"
  /\ pc' = "done"
  /\ UNCHANGED <<ConfigVars, probe, videoInfo, fs, localPath, thumbnailPath, processedPath,
                 fileSize, vpOutcome, processedVideos, imageKitUrls, sheet, pending,
                 events>>
  /\ UNCHANGED SplitVars

-----------------------------------------------------------------------------
Next ==
  \/ updateStatusProcessing
  \/ downloadFile
  \/ analyzeVideo
  \/ captureFrame
  \/ compressVideo
  \/ checkAndSplitVideo
  \/ splitVideo
  \/ extractVideoSegment
  \/ removeOriginal
  \/ pushThumbnail
  \/ uploadFile
  \/ addVideoEntry
  \/ updateStatusCompleted
  \/ scriptCatch
  \/ scriptCleanupFiles
  \/ serverCleanup
  \/ serverCatch

Spec == Init /\ [][Next]_vars

-----------------------------------------------------------------------------
(* Two POST /process/:fileId requests served by the one process.  The      *)
(* handler is async: the two jobs interleave at every await.  Both use the *)
(* one videoProcessor and the one TEMP_DIR.  Job j works on Drive file j;  *)
(* its fileName comes from the request body.                               *)

SingleJobVars ==
  <<maxVideoSizeMB, entry, presetFile, preset, frameCaptureTime, probe, videoInfo,
    thrown, pc, fs, localPath, thumbnailPath, processedPath, fileSize, duration,
    partsNeeded, i, parts, segments, vpOutcome, processedVideos, imageKitUrls,
    sheet, pending, outcome, events>>

\* the single job at rest, while another part of the program is looked at
InitSingleJobIdle ==
  /\ maxVideoSizeMB = DefaultMaxVideoSizeMB
  /\ presetFile = NoFile("missing")
  /\ preset = loadPreset(presetFile)
  /\ frameCaptureTime = DefaultFrameCaptureTime
  /\ probe = ProbeError
  /\ videoInfo = NoInfo
  /\ thrown = "none"
  /\ entry = "server"
  /\ pc = "idle"
  /\ fs = {}
  /\ localPath = NullPath
  /\ thumbnailPath = NullPath
  /\ processedPath = NullPath
  /\ fileSize = 0
  /\ duration = NaN
  /\ partsNeeded = 0
  /\ i = 0
  /\ parts = <<>>
  /\ segments = <<>>
  /\ vpOutcome = "none"
  /\ processedVideos = <<>>
  /\ imageKitUrls = <<>>
  /\ sheet = <<>>
  /\ pending = "none"
  /\ outcome = "running"
  /\ events = <<>>

Jobs == {1, 2}

\* Date.now() at the two downloads takes values in 1..MaxClock
MaxClock == 2

\* names two Drive files can have: equal, equal up to the extension, different
FileNames ==
  {[base |-> "clip", ext |-> ".mp4"], [base |-> "clip", ext |-> ".mov"],
   [base |-> "talk", ext |-> ".mp4"]}

\* paths in TEMP_DIR, built from the request's fileName
NoPath == [kind |-> "none", base |-> "", ext |-> "", n |-> 0]
\* `${Date.now()}-${fileName}`
LocalPathOf(now, name) == [kind |-> "local", base |-> name.base, ext |-> name.ext, n |-> now]
\* `${path.parse(originalFileName).name}_thumbnail.jpg`
ThumbnailPathOf(name) == [kind |-> "_thumbnail", base |-> name.base, ext |-> ".jpg", n |-> 0]
\* `${path.parse(originalFileName).name}_processed.mp4`
ProcessedPathOf(name) == [kind |-> "_processed", base |-> name.base, ext |-> ".mp4", n |-> 0]
\* `${baseName}_part${i + 1}.mp4`
PartPathOf(name, k) == [kind |-> "_part", base |-> name.base, ext |-> ".mp4", n |-> k]

\* TEMP_DIR: the files in it, each with the job that wrote it last
WriteFile(dir, p, j) == {e \in dir : e.path # p} \cup {[path |-> p, owner |-> j]}
RemoveFile(dir, p) == {e \in dir : e.path # p}
FileExists(dir, p) == \E e \in dir : e.path = p

Access(j, p, op) == [job |-> j, path |-> p, op |-> op]

NewJob(name) ==
  [fileName |-> name, pc |-> "download", localPath |-> NoPath, partsNeeded |-> 0,
   i |-> 0, artifacts |-> <<>>, k |-> 0]

InitConcurrent ==
  /\ InitSingleJobIdle
  /\ mon = MonIdle
  /\ \E n1 \in FileNames, n2 \in FileNames :
       conc = [job |-> [j \in Jobs |-> NewJob(IF j = 1 THEN n1 ELSE n2)],
               dir |-> {}, accesses |-> {}, now |-> 1]

\* job j moves to state J, the directory becomes dir, accesses acc are recorded
ConcStep(j, J, dir, acc) ==
  /\ conc' = [conc EXCEPT !.job[j] = J, !.dir = dir, !.accesses = @ \cup acc]
  /\ UNCHANGED <<SingleJobVars, mon>>

\* the handler's catch: 500 response, nothing is deleted
ConcFail(j, acc) ==
  ConcStep(j, [conc.job[j] EXCEPT !.pc = "failed"], conc.dir, acc)

\* time passes between two readings of Date.now()
clockTick ==
  /\ conc.now < MaxClock
  /\ conc' = [conc EXCEPT !.now = @ + 1]
  /\ UNCHANGED <<SingleJobVars, mon>>

\* googleDriveService.downloadFile(fileId, fileName)
concDownloadFile(j) ==
  LET J == conc.job[j]
      p == LocalPathOf(conc.now, J.fileName)
  IN /\ J.pc = "download"
     /\ \/ ConcStep(j, [J EXCEPT !.localPath = p, !.pc = "analyze"],
                    WriteFile(conc.dir, p, j), {Access(j, p, "write")})
        \/ ConcFail(j, {})

\* analyzeVideo(inputPath): ffprobe reads the input
concAnalyzeVideo(j) ==
  LET J == conc.job[j]
      acc == {Access(j, J.localPath, "read")}
  IN /\ J.pc = "analyze"
     /\ \/ /\ FileExists(conc.dir, J.localPath)
           /\ ConcStep(j, [J EXCEPT !.pc = "capture"], conc.dir, acc)
        \/ ConcFail(j, acc)

\* captureFrame(inputPath, originalFileName): reads the input, writes the thumbnail
concCaptureFrame(j) ==
  LET J == conc.job[j]
      t == ThumbnailPathOf(J.fileName)
      acc == {Access(j, J.localPath, "read"), Access(j, t, "write")}
  IN /\ J.pc = "capture"
     /\ \/ /\ FileExists(conc.dir, J.localPath)
           /\ ConcStep(j, [J EXCEPT !.pc = "compress"], WriteFile(conc.dir, t, j), acc)
        \/ ConcFail(j, acc)

\* compressVideo(inputPath, originalFileName): reads the input, writes the transcoded file
concCompressVideo(j) ==
  LET J == conc.job[j]
      o == ProcessedPathOf(J.fileName)
      acc == {Access(j, J.localPath, "read"), Access(j, o, "write")}
  IN /\ J.pc = "compress"
     /\ \/ /\ FileExists(conc.dir, J.localPath)
           /\ ConcStep(j, [J EXCEPT !.pc = "checkSize"], WriteFile(conc.dir, o, j), acc)
        \/ ConcFail(j, acc)

\* checkAndSplitVideo: getFileSize(videoPath); one artifact, or splitVideo up to
\* its loop with partsNeeded in 2..MaxParts
concCheckAndSplitVideo(j) ==
  LET J == conc.job[j]
      o == ProcessedPathOf(J.fileName)
      acc == {Access(j, o, "read")}
  IN /\ J.pc = "checkSize"
     /\ \/ /\ FileExists(conc.dir, o)
           /\ ConcStep(j, [J EXCEPT !.artifacts = <<o>>, !.pc = "pushThumbnail"],
                       conc.dir, acc)
        \/ /\ FileExists(conc.dir, o)
           /\ \E n \in 2..MaxParts :
                ConcStep(j, [J EXCEPT !.partsNeeded = n, !.i = 0, !.pc = "extract"],
                         conc.dir, acc)
        \/ ConcFail(j, acc)

\* one iteration of splitVideo's loop: reads the transcoded file, writes a part
concExtractVideoSegment(j) ==
  LET J == conc.job[j]
      o == ProcessedPathOf(J.fileName)
      q == PartPathOf(J.fileName, J.i + 1)
      acc == {Access(j, o, "read"), Access(j, q, "write")}
  IN /\ J.pc = "extract"
     /\ \/ /\ FileExists(conc.dir, o)
           /\ ConcStep(j, [J EXCEPT !.artifacts = Append(@, q), !.i = @ + 1,
                                    !.pc = IF LoopContinues(J.i + 1, J.partsNeeded)
                                           THEN "extract" ELSE "removeOriginal"],
                       WriteFile(conc.dir, q, j), acc)
        \/ ConcFail(j, acc)

\* await fs.remove(videoPath) after the loop
concRemoveOriginal(j) ==
  LET J == conc.job[j]
      o == ProcessedPathOf(J.fileName)
      acc == {Access(j, o, "remove")}
  IN /\ J.pc = "removeOriginal"
     /\ \/ ConcStep(j, [J EXCEPT !.pc = "pushThumbnail"], RemoveFile(conc.dir, o), acc)
        \/ ConcFail(j, acc)

\* processedVideos.push({ path: thumbnailPath, ..., size: await getFileSize(thumbnailPath) })
concPushThumbnail(j) ==
  LET J == conc.job[j]
      t == ThumbnailPathOf(J.fileName)
      acc == {Access(j, t, "read")}
  IN /\ J.pc = "pushThumbnail"
     /\ \/ /\ FileExists(conc.dir, t)
           /\ ConcStep(j, [J EXCEPT !.artifacts = Append(@, t), !.k = 1, !.pc = "upload"],
                       conc.dir, acc)
        \/ ConcFail(j, acc)

\* one iteration of the upload loop: imageKitService.uploadVideo(video.path, video.name)
concUploadVideo(j) ==
  LET J == conc.job[j]
      v == J.artifacts[J.k]
      acc == {Access(j, v, "read")}
  IN /\ J.pc = "upload"
     /\ \/ /\ FileExists(conc.dir, v)
           /\ ConcStep(j, [J EXCEPT !.k = IF J.k = Len(J.artifacts) THEN 0 ELSE @ + 1,
                                    !.pc = IF J.k = Len(J.artifacts)
                                           THEN "addEntry" ELSE "upload"],
                       conc.dir, acc)
        \/ ConcFail(j, acc)

\* googleSheetsService.addVideoEntry(...)
concAddVideoEntry(j) ==
  LET J == conc.job[j]
  IN /\ J.pc = "addEntry"
     /\ \/ ConcStep(j, [J EXCEPT !.pc = "cleanup"], conc.dir, {})
        \/ ConcFail(j, {})

\* fs.remove(localPath), then fs.remove(video.path) for each artifact, one await each
concCleanup(j) ==
  LET J == conc.job[j]
      p == IF J.k = 0 THEN J.localPath ELSE J.artifacts[J.k]
      acc == {Access(j, p, "remove")}
  IN /\ J.pc = "cleanup"
     /\ \/ ConcStep(j, [J EXCEPT !.k = @ + 1,
                                 !.pc = IF J.k = Len(J.artifacts) THEN "done" ELSE "cleanup"],
                    RemoveFile(conc.dir, p), acc)
        \/ ConcFail(j, acc)

NextConcurrent ==
  \/ clockTick
  \/ \E j \in Jobs : concDownloadFile(j)
  \/ \E j \in Jobs : concAnalyzeVideo(j)
  \/ \E j \in Jobs : concCaptureFrame(j)
  \/ \E j \in Jobs : concCompressVideo(j)
  \/ \E j \in Jobs : concCheckAndSplitVideo(j)
  \/ \E j \in Jobs : concExtractVideoSegment(j)
  \/ \E j \in Jobs : concRemoveOriginal(j)
  \/ \E j \in Jobs : concPushThumbnail(j)
  \/ \E j \in Jobs : concUploadVideo(j)
  \/ \E j \in Jobs : concAddVideoEntry(j)
  \/ \E j \in Jobs : concCleanup(j)

SpecConcurrent == InitConcurrent /\ [][NextConcurrent]_vars

-----------------------------------------------------------------------------
(* CheckAndProcessScript: run() once, or runContinuous().  processVideo of *)
(* VideoProcessingScript is one step here: it succeeds or throws, and it   *)
(* throws for a file without a row, whose first status update finds no     *)
(* entry.                                                                  *)

\* number of run() calls of one process that are followed
MaxChecks == 3

\* what listFiles returns, in its order
DriveFiles ==
  <<[id |-> "a", ext |-> ".mp4"], [id |-> "b", ext |-> ".MOV"], [id |-> "c", ext |-> ".txt"]>>

VideoExtensions == {".mp4", ".avi", ".mov", ".mkv", ".wmv", ".flv", ".webm"}
ToLowerCase(e) == IF e = ".MOV" THEN ".mov" ELSE e
\* videoExtensions.includes(path.extname(fileName).toLowerCase())
isVideoFile(f) == ToLowerCase(f.ext) \in VideoExtensions

\* files.filter(isVideoFile).filter(file => !processedFileIds.has(file.id))
NewVideos(files, processed) ==
  SelectSeq(files, LAMBDA f : isVideoFile(f) /\ f.id \notin processed)

InitMonitor ==
  /\ InitSingleJobIdle
  /\ conc = ConcIdle
  /\ \E c \in BOOLEAN, ids \in SUBSET {"a", "b"} :
       mon = [pc |-> "start", continuous |-> c, sheetIds |-> ids,
              processedFileIds |-> {}, newVideos |-> <<>>, k |-> 0, results |-> <<>>,
              passed |-> <<>>, checks |-> 0, lastCheck |-> "none"]

MonStep(m) == mon' = m /\ UNCHANGED <<SingleJobVars, conc>>

\* where control is once run() has returned: runContinuous waits, a single
\* run ends the script
AfterRun == IF mon.continuous THEN "wait" ELSE "finished"

\* script.run() / await this.run()
monRun ==
  /\ mon.pc = "start"
  /\ mon.checks < MaxChecks
  /\ MonStep([mon EXCEPT !.pc = "load", !.checks = @ + 1])

\* loadProcessedFileIds: a failure of getVideoEntries is logged and swallowed
monLoadProcessedFileIds ==
  /\ mon.pc = "load"
  /\ \/ MonStep([mon EXCEPT !.processedFileIds = @ \cup mon.sheetIds, !.pc = "check"])
     \/ MonStep([mon EXCEPT !.pc = "check"])

\* checkForNewVideos, and what run() does with its result: listFiles failing
\* is rethrown, caught by run()'s catch, and process.exit(1) ends the process
monCheckForNewVideos ==
  /\ mon.pc = "check"
  /\ \/ LET nv == NewVideos(DriveFiles, mon.processedFileIds)
        IN MonStep([mon EXCEPT !.newVideos = nv, !.k = 1, !.results = <<>>,
                               !.lastCheck = "ok",
                               !.pc = IF Len(nv) = 0 THEN AfterRun ELSE "process"])
     \/ MonStep([mon EXCEPT !.lastCheck = "failed", !.pc = "exited"])

\* the messages of the errors VideoProcessingScript.processVideo throws: of a
\* rejected status update, which is all a file without a row can get, or of
\* a failed step
StatusUpdateMessage == "Failed to update status in Google Sheets"
ErrorMessages ==
  {StatusUpdateMessage, "Failed to download file from Google Drive",
   "Failed to process video"}
ErrorMessagesOf(id, sheetIds) ==
  IF id \in sheetIds THEN ErrorMessages ELSE {StatusUpdateMessage}

\* results.push({ fileId, fileName, success: true, result })
SuccessResult(video) == [fileId |-> video.id, success |-> TRUE, error |-> ""]
\* results.push({ fileId, fileName, success: false, error: error.message })
FailureResult(video, msg) == [fileId |-> video.id, success |-> FALSE, error |-> msg]

\* for (const video of videos): after video k of the list, the next one, or
\* the return to run(), which logs its summary and returns
AfterVideoStops(k, videos) == AfterRun
AfterVideo(k, videos) == IF k = Len(videos) THEN AfterRun ELSE "process"

\* one iteration of processNewVideos' loop: the try block, or its catch
monProcessVideo ==
  /\ mon.pc = "process"
  /\ LET video == mon.newVideos[mon.k]
     IN \/ /\ video.id \in mon.sheetIds
           /\ MonStep([mon EXCEPT
                         !.passed = Append(@, video.id),
                         !.results = Append(@, SuccessResult(video)),
                         !.processedFileIds = @ \cup {video.id},
                         !.k = @ + 1, !.pc = AfterVideo(mon.k, mon.newVideos)])
        \/ \E msg \in ErrorMessagesOf(video.id, mon.sheetIds) :
             MonStep([mon EXCEPT
                        !.passed = Append(@, video.id),
                        !.results = Append(@, FailureResult(video, msg)),
                        !.k = @ + 1, !.pc = AfterVideo(mon.k, mon.newVideos)])

\* runContinuous: await this.delay(intervalMinutes * 60 * 1000), then the loop
\* goes round.  Its catch block, with the one-minute delay, follows a throw of
\* run(), and run() never throws.
monDelay ==
  /\ mon.pc = "wait"
  /\ MonStep([mon EXCEPT !.pc = "start"])

NextMonitor ==
  \/ monRun
  \/ monLoadProcessedFileIds
  \/ monCheckForNewVideos
  \/ monProcessVideo
  \/ monDelay

SpecMonitor == InitMonitor /\ [][NextMonitor]_vars

-----------------------------------------------------------------------------
(* Vocabulary of the properties                                            *)

HasEv(op, p) == \E j \in 1..Len(events) : events[j] = Ev(op, p)
EvIndex(op, p) == CHOOSE j \in 1..Len(events) : events[j] = Ev(op, p)

\* checkAndSplitVideo has returned its list (held in parts)
CheckAndSplitReturned == HasEv("end", Stage("split"))

\* the transcoded file exists and its size in MB is above the ceiling
SizeAboveCeiling == processedPath # NullPath /\ fileSize > maxVideoSizeMB * BytesPerMB
SizeWithinCeiling == processedPath # NullPath /\ fileSize <= maxVideoSizeMB * BytesPerMB

\* n = ceil(a / b) over the reals, for b # 0
IsCeilOf(n, a, b) ==
  IF b > 0 THEN (n - 1) * b < a /\ a <= n * b
           ELSE n * b <= a /\ a < (n - 1) * b

RECURSIVE SumOfDurations(_)
SumOfDurations(reqs) ==
  IF reqs = <<>> THEN Num(0)
  ELSE TimeAdd(reqs[1].dur, SumOfDurations(Tail(reqs)))

ScriptSuccess == entry = "script" /\ pc = "done" /\ outcome = "returned"
JobFailed == pc = "done" /\ outcome = "threw"

-----------------------------------------------------------------------------
\* C1: whenever the transcoded size in MB exceeds maxVideoSizeMB,
\* checkAndSplitVideo returns exactly ceil(sizeMB / maxVideoSizeMB) video
\* artifacts, the k-th named <base>_part<k> and tagged part = k,
\* totalParts = partsNeeded; 250 MB under a 98 MB ceiling gives 3 parts.
C1_SplitReturnsCeilParts ==
  (CheckAndSplitReturned /\ SizeAboveCeiling) =>
     /\ IsCeilOf(partsNeeded, fileSize, maxVideoSizeMB * BytesPerMB)
     /\ Len(parts) = partsNeeded
     /\ \A k \in 1..Len(parts) :
          /\ parts[k].type = "video"
          /\ parts[k].name = PartName(k)
          /\ parts[k].part = k
          /\ parts[k].totalParts = partsNeeded
     /\ (maxVideoSizeMB = 98 /\ fileSize = 250 * BytesPerMB) => Len(parts) = 3

\* C2: whenever the transcoded size in MB is at most maxVideoSizeMB (equality
\* included), checkAndSplitVideo returns exactly one video artifact whose path
\* is the transcoded file, without part / totalParts, and nothing is
\* extracted from the transcoded file and it is not deleted by the call.
C2_NoSplitReturnsTranscodedFile ==
  (CheckAndSplitReturned /\ SizeWithinCeiling) =>
     /\ Len(parts) = 1
     /\ parts[1].path = processedPath
     /\ parts[1].type = "video"
     /\ parts[1].size = fileSize
     /\ DOMAIN parts[1] \cap {"part", "totalParts"} = {}
     /\ segments = <<>>
     /\ \A j \in 1..Len(events) : events[j].op \notin {"extract", "extractfail"}
     /\ pc = "pushThumbnail" =>
          /\ processedPath \in fs
          /\ \A j \in 1..Len(events) : events[j].op \notin {"remove", "removefail"}

C2_Witness ==
  /\ pc = "pushThumbnail"
  /\ fileSize = maxVideoSizeMB * BytesPerMB
  /\ parts = <<SingleArtifact(ProcessedName, fileSize)>>

\* C3: every list a successful VideoProcessor.processVideo returns is one or
\* more video artifacts in ascending part order followed by exactly one
\* thumbnail artifact, which is the last element.
C3_VideosThenOneThumbnail ==
  vpOutcome = "returned" =>
    LET n == Len(processedVideos)
    IN /\ n >= 2
       /\ processedVideos[n].type = "thumbnail"
       /\ \A k \in 1..(n - 1) : processedVideos[k].type = "video"
       /\ \A k \in 1..(n - 1) :
            "part" \in DOMAIN processedVideos[k] => processedVideos[k].part = k

\* C4: within one job the stages start in the order analyze, transcode,
\* thumbnail, split, each only after the previous one has completed; the
\* thumbnail capture never starts before the transcode has completed.
C4_StageOrder ==
  \A j \in 1..Len(events) :
    /\ events[j] = Ev("start", Stage("transcode")) =>
         \E k \in 1..(j - 1) : events[k] = Ev("end", Stage("analyze"))
    /\ events[j] = Ev("start", Stage("thumbnail")) =>
         \E k \in 1..(j - 1) : events[k] = Ev("end", Stage("transcode"))
    /\ events[j] = Ev("start", Stage("split")) =>
         \E k \in 1..(j - 1) : events[k] = Ev("end", Stage("thumbnail"))

\* C5: if any stage of a job fails, then when the job's call returns none of
\* the files the job created still exists.
C5_NoFilesAfterFailure == JobFailed => fs = {}

\* C6: if the extraction of segment k fails, no later segment is extracted
\* and, once the error has left splitVideo, every part file written for
\* segments 1..k-1 has been deleted.
C6_FailedSplitDeletesParts ==
  \A k \in 1..(MaxParts + 1) :
    HasEv("extractfail", PartName(k)) =>
      /\ \A j \in (EvIndex("extractfail", PartName(k)) + 1)..Len(events) :
           events[j].op \notin {"extract", "extractfail"}
      /\ vpOutcome = "threw" => \A q \in 1..(k - 1) : PartName(q) \notin fs

\* C7: when splitting occurs, the transcoded file is deleted only after every
\* one of the partsNeeded segments has been extracted, it no longer exists
\* when splitVideo returns its list, and it is never an element of that list.
C7_OriginalRemovedAfterAllParts ==
  SizeAboveCeiling =>
    /\ processedPath \notin fs =>
         \A k \in 1..partsNeeded : HasEv("extract", PartName(k))
    /\ pc = "pushThumbnail" => processedPath \notin fs
    /\ CheckAndSplitReturned =>
         /\ \A k \in 1..Len(parts) : parts[k].path # processedPath
         /\ \A k \in 1..Len(processedVideos) : processedVideos[k].path # processedPath

C7_Witness ==
  /\ SizeAboveCeiling
  /\ pc = "pushThumbnail"
  /\ Len(parts) = 3
  /\ processedPath \notin fs

\* no artifact of the returned list is deleted before it has been uploaded
RemovedAfterUpload ==
  \A j \in 1..Len(events) :
    (/\ events[j].op = "remove"
     /\ \E k \in 1..Len(processedVideos) : processedVideos[k].path = events[j].path)
      => \E k \in 1..(j - 1) : events[k] = Ev("upload", events[j].path)

\* C8 as stated: on the success path of VideoProcessingScript.processVideo no
\* artifact is deleted before its upload, and when the call returns the
\* downloaded input and every artifact have been deleted: no file remains.
C8_SuccessLeavesNoFile == ScriptSuccess => (RemovedAfterUpload /\ fs = {})

\* C8 as amended: on the success path no artifact is deleted before its
\* upload, and when the call returns and no removal has failed, the
\* downloaded input and every artifact of the list have been deleted, so no
\* temporary file of the job remains.
C8_SuccessLeavesNoFileUnlessRemovalFails ==
  ScriptSuccess =>
    /\ RemovedAfterUpload
    /\ (\A j \in 1..Len(events) : events[j].op # "removefail") => fs = {}

C8_Witness ==
  /\ ScriptSuccess
  /\ Len(processedVideos) = 4
  /\ fs = {}
  /\ HasEv("upload", ThumbnailName)
  /\ HasEv("remove", InputPath)

\* C9: for every split the requested ranges are [k*d, (k+1)*d) for
\* k = 0..partsNeeded-1 with d = totalDuration / partsNeeded: the first
\* starts at 0, each starts where the previous one ends, and the requested
\* durations sum to totalDuration.
C9_RangesCoverDuration ==
  (CheckAndSplitReturned /\ SizeAboveCeiling) =>
     /\ Len(segments) = partsNeeded
     /\ \A k \in 1..Len(segments) :
          /\ TimeEq(TimeMul(partsNeeded, segments[k].start), TimeMul(k - 1, duration))
          /\ TimeEq(TimeMul(partsNeeded, segments[k].end), TimeMul(k, duration))
     /\ Len(segments) > 0 => TimeEq(segments[1].start, Num(0))
     /\ \A k \in 1..(Len(segments) - 1) : TimeEq(segments[k + 1].start, segments[k].end)
     /\ TimeEq(SumOfDurations(segments), duration)

\* C10: for every value the ceiling can take after construction (zero and
\* negative values of MAX_VIDEO_SIZE_MB included) and every file size, the
\* plan has partsNeeded >= 1 and checkAndSplitVideo returns at least one
\* video artifact.
C10_AtLeastOnePart ==
  /\ pc \in {"extract", "removeOriginal"} => partsNeeded >= 1
  /\ CheckAndSplitReturned =>
       \E k \in 1..Len(parts) : parts[k].type = "video"

-----------------------------------------------------------------------------
(* The capture timestamp                                                   *)

\* d is a positive finite duration
PositiveFinite(d) == ~d.nan /\ d.num > 0 /\ d.den > 0

\* 0 <= t < d, for a positive finite d
InsideDuration(t, d) == t >= 0 /\ t * d.den < d.num

\* C11: the timestamp handed to the frame-capture tool is inside
\* [0, duration).  Stated for the jobs whose analysis reported a positive
\* finite duration, so that it does not rest on what analyzeVideo lets pass.
C11_TimestampInsideDuration ==
  \A j \in 1..Len(events) :
    (events[j].op = "screenshot" /\ PositiveFinite(videoInfo.duration))
      => InsideDuration(events[j].path[2], videoInfo.duration)

-----------------------------------------------------------------------------
(* The preset                                                              *)

\* C12: when the preset file is missing, unreadable or not parseable, the
\* processor is constructed all the same and its preset is exactly the
\* default one: h264, aac, 1920x1080, bitrate 974, fps 29.97, 2 audio
\* channels, sample rate 48000.
C12_DefaultPresetOnLoadFailure ==
  presetFile.kind \in {"missing", "unreadable", "malformed"}
    => /\ preset.videoCodec = "h264"
       /\ preset.audioCodec = "aac"
       /\ preset.resolution = "1920x1080"
       /\ preset.bitrate = [num |-> TRUE, v |-> 974]
       /\ preset.fps = [num |-> TRUE, v |-> 2997]
       /\ preset.audioChannels = [num |-> TRUE, v |-> 2]
       /\ preset.audioSampleRate = [num |-> TRUE, v |-> 48000]
       /\ DOMAIN preset = {"videoCodec", "audioCodec", "resolution", "bitrate",
                           "fps", "audioChannels", "audioSampleRate"}

\* a processor built over a file that is not JSON has transcoded a video
C12_Witness ==
  presetFile.kind = "malformed" /\ HasEv("end", Stage("transcode"))

PresetFields ==
  {"videoCodec", "audioCodec", "resolution", "bitrate", "fps", "audioChannels",
   "audioSampleRate"}
NumericFields == {"bitrate", "fps", "audioChannels", "audioSampleRate"}
WxH == {"1920x1080", "1280x720"}

PresetValid(p) ==
  /\ PresetFields \subseteq DOMAIN p
  /\ \A f \in NumericFields : p[f].num /\ p[f].v > 0
  /\ p.resolution \in WxH

\* C13: whatever the preset file holds, the preset a transcode runs with has
\* all seven fields, every numeric field finite and positive, and a WxH
\* resolution.
C13_TranscodePresetValid ==
  HasEv("start", Stage("transcode")) => PresetValid(preset)

-----------------------------------------------------------------------------
(* Analysis                                                                *)

\* C14: analyzeVideo resolves only for a probe that succeeded, found a video
\* stream and reported a positive finite duration; every value it resolves
\* to has a positive finite duration and a detected video codec.
C14_AnalysisResolvesOnlyValid ==
  HasEv("end", Stage("analyze"))
    => /\ ~probe.err
       /\ probe.hasVideo
       /\ PositiveFinite(videoInfo.duration)
       /\ videoInfo.videoCodec \notin {"undefined", "none"}

-----------------------------------------------------------------------------
(* Failure of a stage                                                      *)

\* what a stage, a tool invocation or an upload logs when it starts or ends
StageActivity == {"start", "end", "screenshot", "extract", "extractfail", "upload"}

\* C15: once a stage of VideoProcessor.processVideo has failed, no later
\* stage starts, processVideo throws, the caller holds no artifact list and
\* uploads nothing, and the caller's own call ends with an error.
C15_FailedStageAbortsJob ==
  \A j \in 1..Len(events) :
    events[j].op = "fail"
      => /\ \A k \in (j + 1)..Len(events) : events[k].op \notin StageActivity
         /\ vpOutcome = "threw"
         /\ processedVideos = <<>>
         /\ imageKitUrls = <<>>
         /\ ~HasEv("upload", ThumbnailName)
         /\ pc \in {"scriptCatch", "serverCatch", "finally", "done"}
         /\ (pc = "done" => outcome = "threw")

\* the transcode failed after the thumbnail was captured, and the call ended
C15_Witness ==
  /\ HasEv("end", Stage("thumbnail"))
  /\ HasEv("fail", Stage("transcode"))
  /\ pc = "done"

-----------------------------------------------------------------------------
(* Failures while a failure is handled                                     *)

ScriptFailed == entry = "script" /\ JobFailed

\* C16: when VideoProcessingScript.processVideo fails, the error that
\* reaches its caller is the error of the failed step even if the
\* error-status update or a deletion fails too, and every file of the
\* cleanup is tried: one that is left has had its own failed removal.
C16_OriginalErrorAndFullCleanup ==
  ScriptFailed
    => /\ thrown = "original"
       /\ LET t == CleanupTargets(localPath, processedVideos)
          IN \A k \in 1..Len(t) : t[k] \in fs => HasEv("removefail", t[k])

-----------------------------------------------------------------------------
(* Two jobs at once                                                        *)

\* C17: two concurrent jobs on different Drive files, downloaded to
\* different paths, never write, read or delete the same temporary path.
C17_JobsTouchDisjointPaths ==
  conc.job[1].localPath # conc.job[2].localPath
    => \A a \in conc.accesses, b \in conc.accesses :
         a.job # b.job => a.path # b.path

-----------------------------------------------------------------------------
(* The Processing Status column                                            *)

StatusValues == {"PROCESSING", "COMPLETED", "ERROR"}

\* the status of the file's row: the first row holding its file ID, the one
\* updateEntryStatus writes to
HasRow == RowIndex(sheet, FileId) # 0
RowStatus == sheet[RowIndex(sheet, FileId)].status

ScriptEnded == entry = "script" /\ pc = "done"

-----------------------------------------------------------------------------
(* The row of a processed job                                              *)

\* the job ended in success, on either path
JobSucceeded == pc = "done" /\ outcome = "returned"

\* the video artifacts processVideo returned, and its thumbnail
VideoArtifacts == SelectSeq(processedVideos, LAMBDA v : v.type = "video")
ThumbnailArtifacts == SelectSeq(processedVideos, LAMBDA v : v.type = "thumbnail")

\* the row the job appended
AppendedRow == sheet[Len(sheet)]

\* C19: the row appended for a successfully processed job, script or server,
\* holds the number of video artifacts produced, the URL of each of them and
\* the URL of the thumbnail.
C19_RowRecordsArtifacts ==
  JobSucceeded
    => /\ AppendedRow.videoParts = Len(VideoArtifacts)
       /\ AppendedRow.videoUrls =
            [k \in 1..Len(VideoArtifacts) |-> VideoArtifacts[k].path]
       /\ Len(ThumbnailArtifacts) = 1
       /\ AppendedRow.thumbnailUrl = ThumbnailArtifacts[1].path

-----------------------------------------------------------------------------
(* The monitor                                                             *)

\* C20: in continuous mode no check, successful or failed, ends the
\* process: the monitor is never in the state process.exit leaves it in.
C20_ContinuousNeverTerminates ==
  mon.continuous => mon.pc # "exited"

-----------------------------------------------------------------------------
(* A new file on the script path                                           *)

\* the sheet held no row for the file when the job started: every row it
\* holds now is the one the job appended
NoRowAtStart ==
  sheet = <<>> \/ (Len(sheet) = 1 /\ HasEv("append", Stage("sheet")))

\* the download, the processing, an upload or the append has failed
DownloadProcessUploadOrAppendFailed ==
  \/ HasEv("downloadfail", InputPath)
  \/ vpOutcome = "threw"
  \/ \E j \in 1..Len(events) : events[j].op = "uploadfail"
  \/ HasEv("appendfail", Stage("sheet"))

HasCompletedRow ==
  \E r \in 1..Len(sheet) : sheet[r].fileId = FileId /\ sheet[r].status = "COMPLETED"

\* C21: for a file without a row in the sheet, a call of
\* VideoProcessingScript.processVideo in which neither the download nor the
\* processing nor an upload nor the append failed has returned success, and
\* a COMPLETED row of the file exists.
C21_NewFileCompletes ==
  (ScriptEnded /\ NoRowAtStart /\ ~DownloadProcessUploadOrAppendFailed)
    => (outcome = "returned" /\ HasCompletedRow)

-----------------------------------------------------------------------------
(* processNewVideos                                                        *)

\* processNewVideos is not in its loop: it has not been called, or has returned
ResultsReturned == mon.pc # "process"

\* the IDs handed to processVideo during the current call, in order
PassedInThisCall ==
  SubSeq(mon.passed, Len(mon.passed) - Len(mon.results) + 1, Len(mon.passed))

\* C22: processNewVideos takes the videos one at a time in list order; its
\* results are one per video, in the order of the list; a failure is a
\* result with success false and the error's message, and the loop goes on
\* after it: the returned list is as long as the list of videos.
C22_OneResultPerVideoInOrder ==
  /\ Len(mon.results) <= Len(mon.newVideos)
  /\ Len(mon.results) <= Len(mon.passed)
  /\ \A j \in 1..Len(mon.results) :
       /\ mon.results[j].fileId = mon.newVideos[j].id
       /\ PassedInThisCall[j] = mon.newVideos[j].id
       /\ ~mon.results[j].success => mon.results[j].error \in ErrorMessages
  /\ mon.pc = "process" => Len(mon.results) = mon.k - 1
  /\ ResultsReturned => Len(mon.results) = Len(mon.newVideos)

\* the first of two videos failed and the second was processed all the same
C22_Witness ==
  /\ ResultsReturned
  /\ Len(mon.results) = 2
  /\ ~mon.results[1].success
  /\ mon.results[2].success

-----------------------------------------------------------------------------
(* processedFileIds                                                        *)

\* the step hands a video to processVideo
PassesVideo == mon'.passed # mon.passed

\* the step keeps every ID, and an ID it adds was loaded from the sheet or
\* is the ID of the video whose processing has just succeeded
IdsOnlyLoadedOrSucceeded ==
  /\ mon.processedFileIds \subseteq mon'.processedFileIds
  /\ \A id \in mon'.processedFileIds \ mon.processedFileIds :
       \/ mon.pc = "load" /\ id \in mon.sheetIds
       \/ /\ PassesVideo
          /\ mon'.results[Len(mon'.results)] = SuccessResult(mon.newVideos[mon.k])
          /\ mon.newVideos[mon.k].id = id

\* the video the step hands to processVideo is not in processedFileIds
NeverPassedAgain ==
  PassesVideo => mon'.passed[Len(mon'.passed)] \notin mon.processedFileIds

\* after the step, a file whose processing failed in the last call of
\* processNewVideos is not in processedFileIds: the next check selects it
FailedStaysEligible ==
  \A j \in 1..Len(mon'.results) :
    ~mon'.results[j].success => mon'.results[j].fileId \notin mon'.processedFileIds

\* C23: over the checks of one CheckAndProcessScript, IDs enter
\* processedFileIds only from the sheet or after a success, none is removed,
\* no file in processedFileIds is handed to processVideo, and a file whose
\* processing failed is not added and is eligible at the next check.
C23_ProcessedFileIds ==
  [][IdsOnlyLoadedOrSucceeded /\ NeverPassedAgain /\ FailedStaysEligible]_vars

-----------------------------------------------------------------------------
(* Uploads and the row                                                     *)

\* the uploads made so far, in the order they were made
Uploads == SelectSeq(events, LAMBDA e : e.op = "upload")

EventsOf(ops) == {j \in 1..Len(events) : events[j].op \in ops}

\* the job's row has been appended, or a status COMPLETED has been written
RowWritten ==
  EventsOf({"append"}) \cup {j \in 1..Len(events) : events[j] = Ev("status", Stage("COMPLETED"))}

\* C24: on the script path the artifacts are uploaded in list order; the row
\* is appended and the status COMPLETED written only once every artifact of
\* the list is uploaded, the append first; after a failed upload there is no
\* further upload and no row.
C24_RowOnlyAfterAllUploads ==
  entry = "script"
    => /\ Len(Uploads) <= Len(processedVideos)
       /\ \A j \in 1..Len(Uploads) : Uploads[j].path = processedVideos[j].path
       /\ \A w \in RowWritten :
            /\ Len(Uploads) = Len(processedVideos)
            /\ \A u \in EventsOf({"upload"}) : u < w
       /\ \A a \in EventsOf({"append"}) :
            \A c \in RowWritten \ EventsOf({"append"}) : a < c
       /\ \A f \in EventsOf({"uploadfail"}) :
            /\ \A u \in EventsOf({"upload"}) : u < f
            /\ EventsOf({"append"}) = {}

\* the second upload of a script job failed and the call has ended
C24_Witness ==
  /\ ScriptEnded
  /\ Len(Uploads) = 1
  /\ EventsOf({"uploadfail"}) # {}

-----------------------------------------------------------------------------
(* The split loop                                                          *)

\* the events of tool invocations: a stage started, a segment extraction
\* ended or failed
ToolInvocations ==
  {j \in 1..Len(events) : events[j].op \in {"start", "extract", "extractfail"}}

\* C25, its part on finite runs: when splitVideo has returned, its loop has
\* run exactly partsNeeded iterations; no stage is started twice and no
\* segment is extracted twice, failed or not.
C25_LoopRunsPartsNeededOnce ==
  /\ (CheckAndSplitReturned /\ SizeAboveCeiling) => Len(segments) = partsNeeded
  /\ Len(segments) = Cardinality(EventsOf({"extract", "extractfail"}))
  /\ \A j \in ToolInvocations, k \in ToolInvocations :
       (events[j].path = events[k].path
          /\ (events[j].op = "start") = (events[k].op = "start")) => j = k

====
